---- MODULE Spec2Model ----
(***************************************************************************)
(* Process and job orchestration layer of the agent: the background job    *)
(* store and its reconciliation (tools/exec.ts), the foreground command    *)
(* runner, the heartbeat scheduler and the heartbeat daemon lifecycle      *)
(* (services/heartbeat.ts).                                                *)
(*                                                                         *)
(* Optional fields of the TypeScript records (endedAt?, exitCode?) are     *)
(* sets: {} is undefined, {v} is the value v.  Timestamps are readings of  *)
(* the clock `now`.  A job's logPath and statusPath are functions of its   *)
(* id, so files are indexed by job id.                                     *)
(***************************************************************************)
EXTENDS Integers, Sequences, FiniteSets, TLC

\* ------------------------------------------------------------------ bounds
MaxTime == 1
MaxSuffix == 1
MaxJobs == 1
MaxRaceJobs == 1
MaxLaunches == 2
MaxOutputChars == 2
MaxChunk == 2
MaxProduced == 3
MaxNowSeconds == 3
MaxInterval == 3
MaxPlan == 2
MaxDaemons == 2
MaxStops == 2
MaxStderr == 2

\* ------------------------------------------------------- job store: state
VARIABLES now, jobsFile, statusFiles, procs, callback, ctl, ret

varsJobs == <<now, jobsFile, statusFiles, procs, callback, ctl, ret>>

\* The foreground runner's call, the heartbeat scheduler (clock, state file,
\* batch in progress) and the heartbeat daemon (runtime record, processes,
\* Start calls in progress, value last returned) are declared with their parts;
\* so is the voice recorder (the call of startVoiceRecording, the recorder
\* processes, the audio file and the calls of stop).
VARIABLES fg, nowSeconds, plan, heartbeatState, heartbeatMtime, batch, other, runtimeFile, daemons, starter, dret, rec

varsFg == <<fg>>
varsHeartbeat == <<nowSeconds, plan, heartbeatState, heartbeatMtime, batch, other>>
varsDaemon == <<runtimeFile, daemons, starter, dret>>
varsRecorder == <<rec>>
varsElse == <<varsFg, varsHeartbeat, varsDaemon, varsRecorder>>

Controllers == {"c1", "c2"}

RunCommandActions == {"run", "start_background", "list_background",
            "status_background", "stop_background"}

\* Commands a caller may pass.  "exit 0" and "exit 7" are the shell builtin;
\* "true" and "false" are ordinary commands returning 0 and 1.
Commands == {"exit 0", "exit 7", "true", "false"}
NoCommand == "<undefined>"
BlankCommands == {NoCommand, ""}
PlainCommands == {"true", "false"}
RaceCommands == {"true"}

Times == 0..MaxTime
AllIds == Times \X (0..MaxSuffix)
NoJobId == <<>>
UnknownJobId == <<"job-unknown">>

EmptyStore == [i \in {} |-> i]

JobStatus == {"running", "completed", "failed", "stopped", "unknown"}
Terminal == JobStatus \ {"running"}

AlivePhases == {"running"}

\* The command is the shell builtin `exit n`: it ends the wrapper shell itself.
IsExitBuiltin(command) == command \in {"exit 0", "exit 7"}

\* $? of the command.
CommandCode(command) ==
  CASE command = "exit 0" -> 0
    [] command = "exit 7" -> 7
    [] command = "true" -> 0
    [] OTHER -> 1

AbsentFile == [kind |-> "absent", exitCode |-> {}, endedAt |-> {}]
TornFile == [kind |-> "torn", exitCode |-> {}, endedAt |-> {}]

\* ------------------------------------------------- job store: pure helpers
loadJobsState == jobsFile

\* process.kill(pid, 0): pid -1 addresses every process the caller may signal,
\* and there always is one.
isAlive(pid) ==
  IF pid = -1 THEN TRUE
  ELSE pid \in 1..Len(procs) /\ procs[pid].phase \in AlivePhases

parseStatusFile(id) ==
  IF id \notin DOMAIN statusFiles \/ statusFiles[id].kind # "json"
    THEN [exitCode |-> {}, endedAt |-> {}]
    ELSE [exitCode |-> statusFiles[id].exitCode, endedAt |-> statusFiles[id].endedAt]

\* reconcileJobAt without its first line, `if (job.status !== "running") return job`.
reconcileJobAtAnyStatus(job, t) ==
  IF isAlive(job.pid) THEN job
  ELSE LET status == parseStatusFile(job.id) IN
    IF status.exitCode # {}
      THEN [job EXCEPT !.exitCode = status.exitCode,
                       !.endedAt = IF status.endedAt # {} THEN status.endedAt ELSE {t},
                       !.status = IF status.exitCode = {0} THEN "completed" ELSE "failed"]
      ELSE [job EXCEPT !.endedAt = IF job.endedAt # {} THEN job.endedAt ELSE {t},
                       !.status = "unknown"]

reconcileJobAt(job, t) ==
  IF job.status # "running" THEN job
  ELSE IF isAlive(job.pid) THEN job
  ELSE LET status == parseStatusFile(job.id) IN
    IF status.exitCode # {}
      THEN [job EXCEPT !.exitCode = status.exitCode,
                       !.endedAt = IF status.endedAt # {} THEN status.endedAt ELSE {t},
                       !.status = IF status.exitCode = {0} THEN "completed" ELSE "failed"]
      ELSE [job EXCEPT !.endedAt = IF job.endedAt # {} THEN job.endedAt ELSE {t},
                       !.status = "unknown"]

reconcileJob(job) == reconcileJobAt(job, now)

\* reconcileAllJobs returning the store as loaded.
reconcileNoJobs(state) == state

reconcileAllJobs(state) == [id \in DOMAIN state |-> reconcileJob(state[id])]

\* `job-${Date.now()}-${random suffix}`
newJobId(t, r) == <<t, r>>

\* process.kill(pid, "SIGTERM") delivered: the signal is pending at the target(s).
Signalled(pid) ==
  [p \in 1..Len(procs) |->
     IF (pid = -1 \/ p = pid) /\ procs[p].phase \in AlivePhases
       THEN [procs[p] EXCEPT !.term = TRUE]
       ELSE procs[p]]

stopBackgroundJob(job) ==
  IF job.status # "running" THEN job
  ELSE IF ~isAlive(job.pid) THEN reconcileJob(job)
  ELSE [job EXCEPT !.status = "stopped", !.endedAt = {now}]

\* stopBackgroundJob with the process.kill left out.
stopWithoutSignal(job) == procs

\* The signal stopBackgroundJob sends, as the new process table.
stopSignal(job) ==
  IF job.status = "running" /\ isAlive(job.pid) THEN Signalled(job.pid) ELSE procs

RECURSIVE SeqsOf(_)
SeqsOf(S) ==
  IF S = {} THEN {<<>>}
  ELSE UNION {{<<x>> \o s : s \in SeqsOf(S \ {x})} : x \in S}

\* Array.sort with `a.startedAt < b.startedAt ? 1 : -1`: descending startedAt,
\* ties in an order the engine chooses.
SortedJobs(state) ==
  {s \in SeqsOf({state[id] : id \in DOMAIN state}) :
     \A i, j \in 1..Len(s) : i < j => s[i].startedAt >= s[j].startedAt}

\* ret is the value the step just taken returned to its caller, if it returned one.
NoReturn == [kind |-> "none"]

\* A controller outside execute.  Inside, between the load of the store and the
\* action's own step: the resolved action and its arguments, `approved` (the
\* answer of requestApproval, FALSE when it was not asked), the store as loaded
\* and `state`, the reconciled store.
IdleCtl == [pc |-> "idle", action |-> "none", jobId |-> NoJobId, command |-> NoCommand,
            approved |-> FALSE, loaded |-> EmptyStore, state |-> EmptyStore]

PendingStarts == Cardinality({c \in Controllers : ctl[c].action = "start_background"})

\* ----------------------------------------------------- job store: actions
Tick ==
  /\ now < MaxTime
  /\ now' = now + 1
  /\ ret' = NoReturn
  /\ UNCHANGED <<jobsFile, statusFiles, procs, callback, ctl>>

setApprovalCallback(c, cb) ==
  /\ ctl[c].pc = "idle"
  /\ callback[c] # cb
  /\ callback' = [callback EXCEPT ![c] = cb]
  /\ ret' = NoReturn
  /\ UNCHANGED <<now, jobsFile, statusFiles, procs, ctl>>

\* callback === null -> false; otherwise what the callback answers.
requestApproval(c, answer) == callback[c] # "null" /\ answer

effectiveAction(action, background) ==
  IF action = "run" /\ background THEN "start_background" ELSE action

\* requiresApproval with stop_background forgotten.
requiresApprovalToRun(action) ==
  action \in {"run", "start_background"}

requiresApproval(action) ==
  action \in {"run", "start_background", "stop_background"}

\* execute, lines 334-359: resolve the action, ask for approval, then load and
\* reconcile the store.
ExecuteBegin(c, action, background, jobId, command, answer) ==
  LET eff == effectiveAction(action, background) IN
  /\ ctl[c].pc = "idle"
  /\ IF requiresApproval(eff) /\ ~requestApproval(c, answer)
       THEN /\ ret' = [kind |-> "denied", by |-> c, action |-> eff]
            /\ UNCHANGED <<now, jobsFile, statusFiles, procs, callback, ctl>>
       ELSE /\ ctl' = [ctl EXCEPT ![c] =
                 [pc |-> "loaded", action |-> eff,
                  jobId |-> IF eff \in {"status_background", "stop_background"}
                              THEN jobId ELSE NoJobId,
                  command |-> IF eff \in {"run", "start_background"}
                                THEN command ELSE NoCommand,
                  approved |-> requiresApproval(eff) /\ requestApproval(c, answer),
                  loaded |-> loadJobsState,
                  state |-> reconcileAllJobs(loadJobsState)]]
            /\ ret' = NoReturn
            /\ UNCHANGED <<now, jobsFile, statusFiles, procs, callback>>

ListBackground(c) ==
  /\ ctl[c].pc = "loaded" /\ ctl[c].action = "list_background"
  /\ jobsFile' = ctl[c].state
  /\ \E jobs \in SortedJobs(ctl[c].state) : ret' = [kind |-> "jobs", by |-> c, jobs |-> jobs]
  /\ ctl' = [ctl EXCEPT ![c] = IdleCtl]
  /\ UNCHANGED <<now, statusFiles, procs, callback>>

StatusBackground(c) ==
  /\ ctl[c].pc = "loaded" /\ ctl[c].action = "status_background"
  /\ LET jobId == ctl[c].jobId
         state == ctl[c].state IN
     IF jobId = NoJobId
       THEN /\ ret' = [kind |-> "error", by |-> c]
            /\ UNCHANGED jobsFile
       ELSE IF jobId \notin DOMAIN state
         THEN /\ ret' = [kind |-> "status", by |-> c, found |-> FALSE]
              /\ UNCHANGED jobsFile
         ELSE LET updated == reconcileJob(state[jobId]) IN
              /\ jobsFile' = [state EXCEPT ![jobId] = updated]
              /\ ret' = [kind |-> "status", by |-> c, found |-> TRUE, job |-> updated]
  /\ ctl' = [ctl EXCEPT ![c] = IdleCtl]
  /\ UNCHANGED <<now, statusFiles, procs, callback>>

StopBackground(c) ==
  /\ ctl[c].pc = "loaded" /\ ctl[c].action = "stop_background"
  /\ LET jobId == ctl[c].jobId
         state == ctl[c].state IN
     IF jobId = NoJobId
       THEN /\ ret' = [kind |-> "error", by |-> c]
            /\ UNCHANGED <<jobsFile, procs>>
       ELSE IF jobId \notin DOMAIN state
         THEN /\ ret' = [kind |-> "stop", by |-> c, stopped |-> FALSE]
              /\ UNCHANGED <<jobsFile, procs>>
         ELSE LET updated == stopBackgroundJob(state[jobId]) IN
              /\ procs' = stopSignal(state[jobId])
              /\ jobsFile' = [state EXCEPT ![jobId] = updated]
              /\ ret' = [kind |-> "stop", by |-> c, stopped |-> TRUE, job |-> updated]
  /\ ctl' = [ctl EXCEPT ![c] = IdleCtl]
  /\ UNCHANGED <<now, statusFiles, callback>>

\* startBackgroundCommand's record; pid is child.pid ?? -1.
startBackgroundCommand(command, id, pid) ==
  [id |-> id, command |-> command, pid |-> pid, startedAt |-> now,
   endedAt |-> {}, exitCode |-> {}, status |-> "running"]

\* r is the random suffix newJobId draws, spawned whether the OS created the
\* process (child.pid is defined).
StartBackground(c, r, spawned) ==
  /\ ctl[c].pc = "loaded" /\ ctl[c].action = "start_background"
  /\ IF ctl[c].command \in BlankCommands
       THEN /\ ret' = [kind |-> "error", by |-> c]
            /\ UNCHANGED <<jobsFile, procs>>
       ELSE LET id == newJobId(now, r)
                  pid == IF spawned THEN Len(procs) + 1 ELSE -1
                  job == startBackgroundCommand(ctl[c].command, id, pid) IN
              /\ procs' = IF spawned
                            THEN Append(procs, [id |-> id, command |-> ctl[c].command,
                                                phase |-> "running", term |-> FALSE])
                            ELSE procs
              /\ jobsFile' = (id :> job) @@ ctl[c].state
              /\ ret' = [kind |-> "started", by |-> c, job |-> job]
  /\ ctl' = [ctl EXCEPT ![c] = IdleCtl]
  /\ UNCHANGED <<now, statusFiles, callback>>

\* The run action: the store was reconciled but is not saved; the foreground
\* runner itself is modelled by the Fg actions.
RunForeground(c) ==
  /\ ctl[c].pc = "loaded" /\ ctl[c].action = "run"
  /\ ret' = IF ctl[c].command \in BlankCommands
              THEN [kind |-> "error", by |-> c]
              ELSE [kind |-> "result", by |-> c]
  /\ ctl' = [ctl EXCEPT ![c] = IdleCtl]
  /\ UNCHANGED <<now, jobsFile, statusFiles, procs, callback>>

\* ------------------------------------ the wrapped command, as a process
\* A process that has ended: how it ended ("exited" by itself, "killed" by a
\* signal).  Nothing reads what it was running.
Dead(how) == [id |-> NoJobId, command |-> NoCommand, phase |-> how, term |-> FALSE]

\* `${command}; __code=$?; printf '{...}' "$__code" "$(date ...)" > statusPath; exit $__code`
\* run by `zsh -lc`.  The status file is read only by reconcileJob and only once
\* the pid is dead, so the steps of the wrapper after the command are one step:
\* the builtin `exit n` ends the shell before the printf; any other command is
\* followed by the write of the status file and the exit.
ProcCommandDone(p) ==
  /\ procs[p].phase = "running"
  /\ procs' = [procs EXCEPT ![p] = Dead("exited")]
  /\ statusFiles' =
       IF IsExitBuiltin(procs[p].command) THEN statusFiles
       ELSE [statusFiles EXCEPT ![procs[p].id] =
               [kind |-> "json", exitCode |-> {CommandCode(procs[p].command)},
                endedAt |-> {now}]]
  /\ ret' = NoReturn
  /\ UNCHANGED <<now, jobsFile, callback, ctl>>

\* A pending SIGTERM ends the wrapper shell (unless it never gets to act on it).
ProcTerminated(p) ==
  /\ procs[p].phase = "running" /\ procs[p].term
  /\ procs' = [procs EXCEPT ![p] = Dead("killed")]
  /\ ret' = NoReturn
  /\ UNCHANGED <<now, jobsFile, statusFiles, callback, ctl>>

\* An unmaskable signal from outside (SIGKILL, the OOM killer).  When it lands
\* between the `>` redirection's truncation and the printf, the status file is
\* left empty (torn).
ProcKilled(p, torn) ==
  /\ procs[p].phase = "running" /\ ~procs[p].term
  /\ torn => ~IsExitBuiltin(procs[p].command)
  /\ procs' = [procs EXCEPT ![p] = Dead("killed")]
  /\ statusFiles' = IF torn THEN [statusFiles EXCEPT ![procs[p].id] = TornFile]
                    ELSE statusFiles
  /\ ret' = NoReturn
  /\ UNCHANGED <<now, jobsFile, callback, ctl>>

\* The calls a caller can make: arguments an action does not read are left out.
\* At most `launches` commands are launched in the background.
Calls(commands, extraJobIds, backgrounds, launches) ==
  LET mayStart == /\ Len(procs) + PendingStarts < launches
                  /\ Cardinality(DOMAIN jobsFile) + PendingStarts < launches
      startable == IF mayStart THEN commands ELSE commands \cap BlankCommands IN
  [action : {"list_background"}, background : {FALSE}, jobId : {NoJobId},
   command : {NoCommand}]
  \cup [action : {"status_background", "stop_background"}, background : {FALSE},
        jobId : DOMAIN jobsFile \cup extraJobIds, command : {NoCommand}]
  \cup [action : {"start_background"}, background : {FALSE}, jobId : {NoJobId},
        command : startable]
  \cup [action : {"run"}, background : {FALSE}, jobId : {NoJobId}, command : commands]
  \cup [action : {"run"}, background : backgrounds \ {FALSE}, jobId : {NoJobId},
        command : startable]

Execute(c, calls, suffixes) ==
  \/ \E call \in calls, answer \in BOOLEAN :
       /\ ExecuteBegin(c, call.action, call.background, call.jobId, call.command, answer)
       /\ UNCHANGED varsElse
  \/ ListBackground(c) /\ UNCHANGED varsElse
  \/ StatusBackground(c) /\ UNCHANGED varsElse
  \/ StopBackground(c) /\ UNCHANGED varsElse
  \/ \E r \in suffixes, spawned \in BOOLEAN :
       StartBackground(c, r, spawned) /\ UNCHANGED varsElse
  \/ RunForeground(c) /\ UNCHANGED varsElse

Environment ==
  \/ Tick /\ UNCHANGED varsElse
  \/ \E p \in 1..Len(procs) : ProcCommandDone(p) /\ UNCHANGED varsElse
  \/ \E p \in 1..Len(procs) : ProcTerminated(p) /\ UNCHANGED varsElse
  \/ \E p \in 1..Len(procs), torn \in BOOLEAN : ProcKilled(p, torn) /\ UNCHANGED varsElse

\* ------------------------------------------------------ foreground runner
\* Text is a sequence of characters.  `fg` is the one call of
\* runForegroundCommand: its promise (pc, result), its child process (child,
\* code, the command's own exit code and whether it ignores SIGTERM), the
\* ChildProcess object's `killed` flag, the two timers, what was captured, and
\* all that the command wrote to each stream (stdoutProduced, stderrProduced).
TimeoutExitCode == 124

ExitCodes == {0, 2, TimeoutExitCode}
Chars == {"x", " "}
Whitespace == {" ", "\n"}
Chunks == UNION {[1..n -> Chars] : n \in 1..MaxChunk}
SpawnError == <<"E">>

RECURSIVE TrimStart(_)
TrimStart(text) ==
  IF text # <<>> /\ Head(text) \in Whitespace THEN TrimStart(Tail(text)) ELSE text

RECURSIVE TrimEnd(_)
TrimEnd(text) ==
  IF text # <<>> /\ text[Len(text)] \in Whitespace
    THEN TrimEnd(SubSeq(text, 1, Len(text) - 1)) ELSE text

trim(text) == TrimEnd(TrimStart(text))

\* appendLimited without the flag of a chunk cut at the room that is left.
appendLimitedSilently(current, chunk, maxChars) ==
  IF Len(current) >= maxChars THEN [value |-> current, truncated |-> TRUE]
  ELSE LET room == maxChars - Len(current) IN
    IF Len(chunk) <= room
      THEN [value |-> current \o chunk, truncated |-> FALSE]
      ELSE [value |-> current \o SubSeq(chunk, 1, room), truncated |-> FALSE]

appendLimited(current, chunk, maxChars) ==
  IF Len(current) >= maxChars THEN [value |-> current, truncated |-> TRUE]
  ELSE LET room == maxChars - Len(current) IN
    IF Len(chunk) <= room
      THEN [value |-> current \o chunk, truncated |-> FALSE]
      ELSE [value |-> current \o SubSeq(chunk, 1, room), truncated |-> TRUE]

\* `code ?? 1`: the exit code, 1 when the process was ended by a signal.
codeOrOne(code) == IF code # {} THEN CHOOSE c \in code : TRUE ELSE 1

\* The close handler's exit code with `timedOut ?` left out.
exitCodeOfProcess(timedOut, code) == codeOrOne(code)

\* `timedOut ? 124 : code ?? 1`
exitCodeOf(timedOut, code) == IF timedOut THEN TimeoutExitCode ELSE codeOrOne(code)

IdleFg == [pc |-> "idle", child |-> "none", ownCode |-> 0, ignoresTerm |-> FALSE,
           code |-> {}, killed |-> FALSE, timer |-> "none", grace |-> "none",
           timedOut |-> FALSE, sigterm |-> FALSE, sigkill |-> FALSE,
           stdout |-> <<>>, stderr |-> <<>>, truncated |-> FALSE,
           maxOutputChars |-> 0, result |-> {},
           stdoutProduced |-> <<>>, stderrProduced |-> <<>>]

\* A promise settles once: a later resolve changes nothing.
resolve(r) == IF fg.result = {} THEN {r} ELSE fg.result

clearTimeout == IF fg.timer = "armed" THEN "cleared" ELSE fg.timer

\* child.kill(signal): the signal is delivered, and `killed` set, while the
\* runtime still holds the process; afterwards kill() does nothing.
childKill(f, signal) ==
  IF f.child = "running"
    THEN [f EXCEPT !.killed = TRUE,
                   !.sigterm = @ \/ signal = "SIGTERM",
                   !.sigkill = @ \/ signal = "SIGKILL"]
    ELSE f

runForegroundCommand(ownCode, ignoresTerm, spawned, maxOutputChars) ==
  /\ fg.pc = "idle"
  /\ fg' = [IdleFg EXCEPT !.pc = "pending",
                          !.child = IF spawned THEN "running" ELSE "failed",
                          !.ownCode = ownCode,
                          !.ignoresTerm = ignoresTerm,
                          !.timer = "armed",
                          !.maxOutputChars = maxOutputChars]
  /\ UNCHANGED <<varsJobs, varsHeartbeat, varsDaemon, varsRecorder>>

OnStdoutData(chunk) ==
  /\ fg.child \in {"running", "exited"}
  /\ LET next == appendLimited(fg.stdout, chunk, fg.maxOutputChars) IN
     fg' = [fg EXCEPT !.stdout = next.value, !.truncated = @ \/ next.truncated,
                      !.stdoutProduced = @ \o chunk]
  /\ UNCHANGED <<varsJobs, varsHeartbeat, varsDaemon, varsRecorder>>

OnStderrData(chunk) ==
  /\ fg.child \in {"running", "exited"}
  /\ LET next == appendLimited(fg.stderr, chunk, fg.maxOutputChars) IN
     fg' = [fg EXCEPT !.stderr = next.value, !.truncated = @ \/ next.truncated,
                      !.stderrProduced = @ \o chunk]
  /\ UNCHANGED <<varsJobs, varsHeartbeat, varsDaemon, varsRecorder>>

\* The command ends by itself with its own exit code.
ChildExit ==
  /\ fg.child = "running"
  /\ fg' = [fg EXCEPT !.child = "exited", !.code = {fg.ownCode}]
  /\ UNCHANGED <<varsJobs, varsHeartbeat, varsDaemon, varsRecorder>>

\* The command dies of a signal the runner sent: SIGTERM unless it ignores it,
\* SIGKILL always.  The exit code is null.
ChildTerminated ==
  /\ fg.child = "running"
  /\ (fg.sigterm /\ ~fg.ignoresTerm) \/ fg.sigkill
  /\ fg' = [fg EXCEPT !.child = "exited", !.code = {}]
  /\ UNCHANGED <<varsJobs, varsHeartbeat, varsDaemon, varsRecorder>>

\* The command dies of a signal somebody else sent.
ChildKilledByOther ==
  /\ fg.child = "running"
  /\ fg' = [fg EXCEPT !.child = "exited", !.code = {}]
  /\ UNCHANGED <<varsJobs, varsHeartbeat, varsDaemon, varsRecorder>>

OnClose ==
  /\ fg.child = "exited"
  /\ fg' = [fg EXCEPT !.child = "closed",
                      !.timer = clearTimeout,
                      !.pc = "resolved",
                      !.result = resolve([stdout |-> trim(fg.stdout),
                                          stderr |-> trim(fg.stderr),
                                          exitCode |-> exitCodeOf(fg.timedOut, fg.code),
                                          timedOut |-> fg.timedOut,
                                          truncated |-> fg.truncated])]
  /\ UNCHANGED <<varsJobs, varsHeartbeat, varsDaemon, varsRecorder>>

\* The OS could not create the process: the error event.
OnError ==
  /\ fg.child = "failed"
  /\ fg' = [fg EXCEPT !.child = "errored",
                      !.timer = clearTimeout,
                      !.pc = "resolved",
                      !.result = resolve([stdout |-> fg.stdout,
                                          stderr |-> trim(fg.stderr \o <<"\n">> \o SpawnError),
                                          exitCode |-> 1,
                                          timedOut |-> FALSE,
                                          truncated |-> fg.truncated])]
  /\ UNCHANGED <<varsJobs, varsHeartbeat, varsDaemon, varsRecorder>>

\* A runtime may deliver close after the error event; the promise is settled.
OnCloseAfterError ==
  /\ fg.child = "errored"
  /\ fg' = [fg EXCEPT !.child = "closed",
                      !.timer = clearTimeout,
                      !.result = resolve([stdout |-> trim(fg.stdout),
                                          stderr |-> trim(fg.stderr),
                                          exitCode |-> exitCodeOf(fg.timedOut, fg.code),
                                          timedOut |-> fg.timedOut,
                                          truncated |-> fg.truncated])]
  /\ UNCHANGED <<varsJobs, varsHeartbeat, varsDaemon, varsRecorder>>

\* The timeoutMs timer: timedOut, SIGTERM, and the 1500 ms timer is set.
OnTimeout ==
  /\ fg.timer = "armed"
  /\ fg.child \in {"running", "exited"}
  /\ fg' = [childKill(fg, "SIGTERM") EXCEPT !.timer = "fired",
                                            !.timedOut = TRUE,
                                            !.grace = "armed"]
  /\ UNCHANGED <<varsJobs, varsHeartbeat, varsDaemon, varsRecorder>>

\* The 1500 ms timer: `if (!child.killed) child.kill("SIGKILL")`.
OnGraceTimeout ==
  /\ fg.grace = "armed"
  /\ fg' = [(IF ~fg.killed THEN childKill(fg, "SIGKILL") ELSE fg)
              EXCEPT !.grace = "fired"]
  /\ UNCHANGED <<varsJobs, varsHeartbeat, varsDaemon, varsRecorder>>

NextFg ==
  \/ \E ownCode \in ExitCodes, ignoresTerm, spawned \in BOOLEAN,
        maxOutputChars \in 1..MaxOutputChars :
       runForegroundCommand(ownCode, ignoresTerm, spawned, maxOutputChars)
  \/ \E chunk \in Chunks :
       Len(fg.stdoutProduced) + Len(chunk) <= MaxProduced /\ OnStdoutData(chunk)
  \/ \E chunk \in Chunks :
       Len(fg.stderrProduced) + Len(chunk) <= MaxProduced /\ OnStderrData(chunk)
  \/ ChildExit
  \/ ChildTerminated
  \/ ChildKilledByOther
  \/ OnClose
  \/ OnError
  \/ OnCloseAfterError
  \/ OnTimeout
  \/ OnGraceTimeout

\* ----------------------------------------------------- heartbeat scheduler
\* The plan is a sequence of tasks [key, intervalSeconds], every interval a
\* positive whole number of seconds (parseHeartbeatPlan drops a section whose
\* interval is missing or 0).  The state file is {} while it does not exist,
\* else {[lastChecks, lastResults]}, both functions of the keys recorded;
\* heartbeatMtime is the time it was last written, {} while it does not exist.
\* `batch` is the one call of runHeartbeatOnce.
TaskKeys == {"moltbook", "weather"}
Intervals == 1..MaxInterval
Tasks == [key : TaskKeys, intervalSeconds : Intervals]
Plans == UNION {[1..n -> Tasks] : n \in 1..MaxPlan}
Seconds == 0..MaxNowSeconds
LastChecks == UNION {[keys -> Seconds] : keys \in SUBSET TaskKeys}

fallbackTasks == <<[key |-> "moltbook", intervalSeconds |-> MaxInterval],
                   [key |-> "weather", intervalSeconds |-> MaxInterval]>>

loadHeartbeatState ==
  IF heartbeatState = {} THEN [lastChecks |-> EmptyStore, lastResults |-> EmptyStore]
  ELSE CHOOSE state \in heartbeatState : TRUE

\* `state.lastChecks[task.key] ?? 0`
lastCheckOf(state, key) ==
  IF key \in DOMAIN state.lastChecks THEN state.lastChecks[key] ELSE 0

\* The due test on the distance between the clock and the last check.
isDueApart(state, task, seconds) ==
  \/ seconds - lastCheckOf(state, task.key) >= task.intervalSeconds
  \/ lastCheckOf(state, task.key) - seconds >= task.intervalSeconds

\* The due test one second early.
isDueEarly(state, task, seconds) ==
  seconds - lastCheckOf(state, task.key) >= task.intervalSeconds - 1

\* The due test with > in place of >=.
isDueAfter(state, task, seconds) ==
  seconds - lastCheckOf(state, task.key) > task.intervalSeconds

isDue(state, task, seconds) ==
  seconds - lastCheckOf(state, task.key) >= task.intervalSeconds

dueTasks(tasks, state, seconds) ==
  LET test(task) == isDue(state, task, seconds) IN SelectSeq(tasks, test)

IdleBatch == [pc |-> "idle", nowSeconds |-> 0,
              loaded |-> [lastChecks |-> EmptyStore, lastResults |-> EmptyStore],
              state |-> [lastChecks |-> EmptyStore, lastResults |-> EmptyStore],
              due |-> <<>>, executing |-> {}, runs |-> <<>>, result |-> {},
              exit |-> {}]

\* The loop left at the first run that is not ok.
loopDoneOrFailed(b) ==
  Len(b.runs) = Len(b.due) \/ \E i \in 1..Len(b.runs) : ~b.runs[i].ok

\* `for (const task of due)` has gone through every due task.
loopDone(b) == Len(b.runs) = Len(b.due)

\* The batch is ok when some run is.
someRunOk(runs) == \E i \in 1..Len(runs) : runs[i].ok

\* `runs.every((run) => run.ok)`
everyRunOk(runs) == \A i \in 1..Len(runs) : runs[i].ok

\* What `heartbeat once` ends with: it returns after HEARTBEAT_OK when nothing
\* was due, and calls process.exit(1) when the result is not ok.
onceExitCode(result) ==
  IF result.dueCount = 0 THEN 0 ELSE IF ~result.ok THEN 1 ELSE 0

HeartbeatTick ==
  /\ nowSeconds < MaxNowSeconds
  /\ nowSeconds' = nowSeconds + 1
  /\ UNCHANGED <<plan, heartbeatState, heartbeatMtime, batch, other>>
  /\ UNCHANGED <<varsJobs, varsFg, varsDaemon, varsRecorder>>

\* The wall clock is set, forward or backward: Date.now() follows it.
ClockJump(seconds) ==
  /\ seconds # nowSeconds
  /\ nowSeconds' = seconds
  /\ UNCHANGED <<plan, heartbeatState, heartbeatMtime, batch, other>>
  /\ UNCHANGED <<varsJobs, varsFg, varsDaemon, varsRecorder>>

\* runHeartbeatOnce up to the loop: with nothing due it returns here.
runHeartbeatOnce ==
  /\ batch.pc = "idle"
  /\ LET state == loadHeartbeatState
         due == dueTasks(plan, state, nowSeconds) IN
     batch' = [pc |-> IF due = <<>> THEN "idle" ELSE "running",
               nowSeconds |-> nowSeconds,
               loaded |-> state,
               state |-> state,
               due |-> due,
               executing |-> {},
               runs |-> <<>>,
               result |-> IF due = <<>>
                            THEN {[ok |-> TRUE, dueCount |-> 0, runs |-> <<>>]}
                            ELSE {},
               exit |-> IF due = <<>>
                          THEN {onceExitCode([ok |-> TRUE, dueCount |-> 0, runs |-> <<>>])}
                          ELSE {}]
  /\ UNCHANGED <<nowSeconds, plan, heartbeatState, heartbeatMtime, other>>
  /\ UNCHANGED <<varsJobs, varsFg, varsDaemon, varsRecorder>>

\* The loop's update of the state, made for a run that is ok only.
recordRunIfOk(state, key, ok, seconds, at) ==
  [lastChecks |-> IF ok THEN (key :> seconds) @@ state.lastChecks ELSE state.lastChecks,
   lastResults |-> (key :> [at |-> at, ok |-> ok]) @@ state.lastResults]

\* `state.lastChecks[task.key] = nowSeconds; state.lastResults[task.key] = ...`:
\* seconds is the batch's nowSeconds, at the clock when the run ended.
recordRun(state, key, ok, seconds, at) ==
  [lastChecks |-> (key :> seconds) @@ state.lastChecks,
   lastResults |-> (key :> [at |-> at, ok |-> ok]) @@ state.lastResults]

\* A turn of the loop begins: the executor of the next due task is called.
beginTask ==
  /\ batch.pc = "running"
  /\ batch.executing = {}
  /\ ~loopDone(batch)
  /\ batch' = [batch EXCEPT !.executing = {Len(batch.runs) + 1}]
  /\ UNCHANGED <<nowSeconds, plan, heartbeatState, heartbeatMtime, other>>
  /\ UNCHANGED <<varsJobs, varsFg, varsDaemon, varsRecorder>>

\* The turn ends: the executor has returned, ok or not (executeTask turns an
\* exception into a run that is not ok), and the copy of the state is updated.
executeTask(ok) ==
  /\ batch.pc = "running"
  /\ batch.executing # {}
  /\ LET task == batch.due[CHOOSE i \in batch.executing : TRUE] IN
     batch' = [batch EXCEPT
       !.executing = {},
       !.runs = Append(@, [key |-> task.key, ok |-> ok]),
       !.state = recordRun(@, task.key, ok, batch.nowSeconds, nowSeconds)]
  /\ UNCHANGED <<nowSeconds, plan, heartbeatState, heartbeatMtime, other>>
  /\ UNCHANGED <<varsJobs, varsFg, varsDaemon, varsRecorder>>

\* After the loop: the state is saved and the result returned.
saveHeartbeatState ==
  /\ batch.pc = "running"
  /\ batch.executing = {}
  /\ loopDone(batch)
  /\ heartbeatState' = {batch.state}
  /\ heartbeatMtime' = {nowSeconds}
  /\ batch' = [batch EXCEPT
       !.pc = "idle",
       !.result = {[ok |-> everyRunOk(batch.runs),
                    dueCount |-> Len(batch.due),
                    runs |-> batch.runs]},
       !.exit = {onceExitCode([ok |-> everyRunOk(batch.runs),
                               dueCount |-> Len(batch.due),
                               runs |-> batch.runs])}]
  /\ UNCHANGED <<nowSeconds, plan, other>>
  /\ UNCHANGED <<varsJobs, varsFg, varsDaemon, varsRecorder>>

NextHeartbeat ==
  \/ HeartbeatTick
  \/ runHeartbeatOnce
  \/ beginTask
  \/ \E ok \in BOOLEAN : executeTask(ok)
  \/ saveHeartbeatState

\* A second invocation of runHeartbeatOnce in another process (`heartbeat
\* once` typed while the daemon's batch is under way), on the same plan and
\* state file: `other` is its call, a turn of its loop taken as one step.
IdleOther == [pc |-> "idle", nowSeconds |-> 0,
              state |-> [lastChecks |-> EmptyStore, lastResults |-> EmptyStore],
              due |-> <<>>, runs |-> <<>>]

OtherRunHeartbeatOnce ==
  /\ other.pc = "idle"
  /\ LET state == loadHeartbeatState
         due == dueTasks(plan, state, nowSeconds) IN
     other' = [pc |-> IF due = <<>> THEN "idle" ELSE "running",
               nowSeconds |-> nowSeconds, state |-> state, due |-> due, runs |-> <<>>]
  /\ UNCHANGED <<nowSeconds, plan, heartbeatState, heartbeatMtime, batch>>
  /\ UNCHANGED <<varsJobs, varsFg, varsDaemon, varsRecorder>>

OtherExecuteTask(ok) ==
  /\ other.pc = "running"
  /\ ~loopDone(other)
  /\ LET task == other.due[Len(other.runs) + 1] IN
     other' = [other EXCEPT
       !.runs = Append(@, [key |-> task.key, ok |-> ok]),
       !.state = recordRun(@, task.key, ok, other.nowSeconds, nowSeconds)]
  /\ UNCHANGED <<nowSeconds, plan, heartbeatState, heartbeatMtime, batch>>
  /\ UNCHANGED <<varsJobs, varsFg, varsDaemon, varsRecorder>>

OtherSaveHeartbeatState ==
  /\ other.pc = "running"
  /\ loopDone(other)
  /\ heartbeatState' = {other.state}
  /\ heartbeatMtime' = {nowSeconds}
  /\ other' = [other EXCEPT !.pc = "idle"]
  /\ UNCHANGED <<nowSeconds, plan, batch>>
  /\ UNCHANGED <<varsJobs, varsFg, varsDaemon, varsRecorder>>

NextOverlap ==
  \/ NextHeartbeat
  \/ OtherRunHeartbeatOnce
  \/ \E ok \in BOOLEAN : OtherExecuteTask(ok)
  \/ OtherSaveHeartbeatState

\* -------------------------------------------------------- heartbeat daemon
\* The runtime record is {} while heartbeat.pid.json does not exist, else
\* {pid}.  A daemon process is "started" until runHeartbeatService has written
\* its record and installed its handlers, then "polling", then "dead"; `term`
\* is a SIGTERM delivered and not yet handled.  startHeartbeatDaemon is two
\* steps, the check and the spawn, since its callers are separate processes.
Invokers == {"i1", "i2"}
NoDret == [kind |-> "none"]

loadRuntime == runtimeFile

\* A poll-loop process that has not yet run runHeartbeatService: `loop` is
\* where its loop stands, `exit` how the process ended.
StartedDaemon == [phase |-> "started", term |-> FALSE, loop |-> "none",
                  pollSeconds |-> 0, exit |-> "none"]

\* The least poll interval that is accepted, and the one used otherwise.
MinPollSeconds == 15
DefaultPollSeconds == 60

\* CALE_HEARTBEAT_POLL_SECONDS: not set, or the text of a number.
PollEnvs == {{}, {MinPollSeconds - 1}, {MinPollSeconds}}

\* The poll interval is whatever the environment says.
pollSecondsOfEnv(env) ==
  IF env = {} THEN DefaultPollSeconds ELSE CHOOSE n \in env : TRUE

\* pollMs, in seconds: `Number.isFinite(pollSeconds) && pollSeconds >= 15 ?
\* pollSeconds * 1000 : 60_000`.
pollSecondsOf(env) ==
  LET pollSeconds == IF env = {} THEN DefaultPollSeconds ELSE CHOOSE n \in env : TRUE IN
  IF pollSeconds >= MinPollSeconds THEN pollSeconds ELSE DefaultPollSeconds

isAlivePid(pid) == pid \in 1..Len(daemons) /\ daemons[pid].phase # "dead"

AliveDaemons == {pid \in 1..Len(daemons) : isAlivePid(pid)}

\* The check with the liveness test negated.
alreadyRunningIfDead(existing) ==
  existing # {} /\ \A pid \in existing : ~isAlivePid(pid)

\* `existing && isAlive(existing.pid)`
alreadyRunning(existing) ==
  existing # {} /\ \A pid \in existing : isAlivePid(pid)

startHeartbeatDaemon(i, entryScript) ==
  /\ starter[i] = "idle"
  /\ LET existing == loadRuntime IN
     IF alreadyRunning(existing)
       THEN /\ dret' = [kind |-> "start", by |-> i, started |-> FALSE, pid |-> existing,
                        message |-> "already running"]
            /\ UNCHANGED starter
       ELSE IF ~entryScript
         THEN /\ dret' = [kind |-> "start", by |-> i, started |-> FALSE, pid |-> {},
                          message |-> "no entry script"]
              /\ UNCHANGED starter
         ELSE /\ starter' = [starter EXCEPT ![i] = "checked"]
              /\ dret' = NoDret
  /\ UNCHANGED <<runtimeFile, daemons>>
  /\ UNCHANGED <<varsJobs, varsFg, varsHeartbeat, varsRecorder>>

\* The spawn, and saveRuntime when the child has a pid.
StartSpawn(i, spawned) ==
  /\ starter[i] = "checked"
  /\ starter' = [starter EXCEPT ![i] = "idle"]
  /\ IF spawned
       THEN LET pid == Len(daemons) + 1 IN
            /\ daemons' = Append(daemons, StartedDaemon)
            /\ runtimeFile' = {pid}
            /\ dret' = [kind |-> "start", by |-> i, started |-> TRUE, pid |-> {pid},
                        message |-> "started"]
       ELSE /\ dret' = [kind |-> "start", by |-> i, started |-> FALSE, pid |-> {},
                        message |-> "failed to start"]
            /\ UNCHANGED <<runtimeFile, daemons>>
  /\ UNCHANGED <<varsJobs, varsFg, varsHeartbeat, varsRecorder>>

\* process.kill throws for a pid that is gone, and clearRuntime is then skipped.
stopHeartbeatDaemon(i) ==
  /\ starter[i] = "idle"
  /\ LET runtime == loadRuntime IN
     IF runtime = {}
       THEN /\ dret' = [kind |-> "stop", by |-> i, stopped |-> FALSE,
                        message |-> "not running"]
            /\ UNCHANGED <<runtimeFile, daemons>>
       ELSE IF \A pid \in runtime : isAlivePid(pid)
         THEN /\ daemons' = [p \in 1..Len(daemons) |->
                               IF p \in runtime THEN [daemons[p] EXCEPT !.term = TRUE]
                                                ELSE daemons[p]]
              /\ runtimeFile' = {}
              /\ dret' = [kind |-> "stop", by |-> i, stopped |-> TRUE,
                          message |-> "stopped"]
         ELSE /\ dret' = [kind |-> "stop", by |-> i, stopped |-> FALSE,
                          message |-> "kill failed"]
              /\ UNCHANGED <<runtimeFile, daemons>>
  /\ UNCHANGED starter
  /\ UNCHANGED <<varsJobs, varsFg, varsHeartbeat, varsRecorder>>

\* Status that takes the record's word for it.
isRunningIfRecorded(runtime) == runtime # {}

\* `!!runtime && isAlive(runtime.pid)`
isRunning(runtime) == runtime # {} /\ \A pid \in runtime : isAlivePid(pid)

getHeartbeatStatus(i) ==
  /\ starter[i] = "idle"
  /\ LET runtime == loadRuntime
         running == isRunning(runtime) IN
     dret' = [kind |-> "status", by |-> i, running |-> running,
              runtime |-> IF running THEN runtime ELSE {}]
  /\ UNCHANGED <<runtimeFile, daemons, starter>>
  /\ UNCHANGED <<varsJobs, varsFg, varsHeartbeat, varsRecorder>>

\* `heartbeat run` typed by hand: a poll loop that no Start spawned.
HeartbeatRun ==
  /\ daemons' = Append(daemons, StartedDaemon)
  /\ dret' = NoDret
  /\ UNCHANGED <<runtimeFile, starter>>
  /\ UNCHANGED <<varsJobs, varsFg, varsHeartbeat, varsRecorder>>

\* runHeartbeatService up to its loop: the record with its own pid, the
\* handlers, the poll interval; the first batch is next.  A process with a
\* SIGTERM pending before its handlers are installed does not get here: the
\* signal ends it.
runHeartbeatService(p, env) ==
  /\ daemons[p].phase = "started"
  /\ ~daemons[p].term
  /\ daemons' = [daemons EXCEPT ![p].phase = "polling",
                                ![p].loop = "batch",
                                ![p].pollSeconds = pollSecondsOf(env)]
  /\ runtimeFile' = {p}
  /\ dret' = NoDret
  /\ UNCHANGED starter
  /\ UNCHANGED <<varsJobs, varsFg, varsHeartbeat, varsRecorder>>

\* `await runHeartbeatOnce(...)` of the loop has returned: the sleep is next.
BatchDone(p) ==
  /\ daemons[p].phase = "polling" /\ daemons[p].loop = "batch"
  /\ daemons' = [daemons EXCEPT ![p].loop = "sleep"]
  /\ dret' = NoDret
  /\ UNCHANGED <<runtimeFile, starter>>
  /\ UNCHANGED <<varsJobs, varsFg, varsHeartbeat, varsRecorder>>

\* `await sleep(pollMs)` is over: the next batch.
SleepDone(p) ==
  /\ daemons[p].phase = "polling" /\ daemons[p].loop = "sleep"
  /\ daemons' = [daemons EXCEPT ![p].loop = "batch"]
  /\ dret' = NoDret
  /\ UNCHANGED <<runtimeFile, starter>>
  /\ UNCHANGED <<varsJobs, varsFg, varsHeartbeat, varsRecorder>>

DeadDaemon(exit) == [phase |-> "dead", term |-> FALSE, loop |-> "none",
                     pollSeconds |-> 0, exit |-> exit]

\* clearRuntime(): the runtime record is unlinked, whose ever it is.
clearRuntime == {}

\* The SIGINT handler, on Ctrl-C: cleanup, then exit.
OnSigint(p) ==
  /\ daemons[p].phase = "polling"
  /\ daemons' = [daemons EXCEPT ![p] = DeadDaemon("SIGINT")]
  /\ runtimeFile' = clearRuntime
  /\ dret' = NoDret
  /\ UNCHANGED starter
  /\ UNCHANGED <<varsJobs, varsFg, varsHeartbeat, varsRecorder>>

\* The SIGTERM handler: cleanup, then exit.
OnSigterm(p) ==
  /\ daemons[p].phase = "polling" /\ daemons[p].term
  /\ daemons' = [daemons EXCEPT ![p] = DeadDaemon("SIGTERM")]
  /\ runtimeFile' = clearRuntime
  /\ dret' = NoDret
  /\ UNCHANGED starter
  /\ UNCHANGED <<varsJobs, varsFg, varsHeartbeat, varsRecorder>>

\* The exit handler, when the process ends for another reason.
OnExit(p) ==
  /\ daemons[p].phase = "polling"
  /\ daemons' = [daemons EXCEPT ![p] = DeadDaemon("exit")]
  /\ runtimeFile' = clearRuntime
  /\ dret' = NoDret
  /\ UNCHANGED starter
  /\ UNCHANGED <<varsJobs, varsFg, varsHeartbeat, varsRecorder>>

\* The process is killed with no handler run: SIGKILL, or a SIGTERM that
\* arrives before the handlers are installed.
DaemonKilled(p) ==
  /\ daemons[p].phase # "dead"
  /\ daemons' = [daemons EXCEPT ![p] = DeadDaemon("killed")]
  /\ dret' = NoDret
  /\ UNCHANGED <<runtimeFile, starter>>
  /\ UNCHANGED <<varsJobs, varsFg, varsHeartbeat, varsRecorder>>

NextDaemon ==
  \/ \E i \in Invokers, entryScript \in BOOLEAN : startHeartbeatDaemon(i, entryScript)
  \/ \E i \in Invokers :
       \E spawned \in (IF Len(daemons) < MaxDaemons THEN BOOLEAN ELSE {FALSE}) :
         StartSpawn(i, spawned)
  \/ \E i \in Invokers : stopHeartbeatDaemon(i)
  \/ \E i \in Invokers : getHeartbeatStatus(i)
  \/ Len(daemons) < MaxDaemons /\ HeartbeatRun
  \/ \E p \in 1..Len(daemons), env \in PollEnvs : runHeartbeatService(p, env)
  \/ \E p \in 1..Len(daemons) : BatchDone(p)
  \/ \E p \in 1..Len(daemons) : SleepDone(p)
  \/ \E p \in 1..Len(daemons) : OnSigint(p)
  \/ \E p \in 1..Len(daemons) : OnSigterm(p)
  \/ \E p \in 1..Len(daemons) : OnExit(p)
  \/ \E p \in 1..Len(daemons) : DaemonKilled(p)

\* ------------------------------------------------------- voice recorder
\* services/memory.ts: startVoiceRecording tries the installed recorders in
\* turn and returns a session for the first one that is spawned; the session's
\* stop() ends the recorder with signals and checks that there is an audio file.
\* `rec` holds the call of startVoiceRecording, the ChildProcess objects in the
\* order of their creation, the audio file, and the calls of stop().

\* recorderSpecs(filePath): the labels of the linux list, in its order.
recorderSpecs == <<"ffmpeg(alsa)", "arecord", "sox(rec)">>

RecorderLabels == {recorderSpecs[i] : i \in 1..Len(recorderSpecs)}

\* recorderSpecs(filePath).filter((spec) => isCommandAvailable(spec.cmd))
installedCandidates(installed) ==
  LET isCommandAvailable(label) == label \in installed IN
  SelectSeq(recorderSpecs, isCommandAvailable)

\* error.message of a spawn that failed.
SpawnReasons == {"ENOENT", "EACCES"}

\* The signals a recorder does not react to; SIGKILL cannot be ignored.
Ignoring == {{}, {"SIGINT"}, {"SIGINT", "SIGTERM"}}

\* Exit codes of a recorder; {} is `null`, the process was ended by a signal.
RecorderCodes == {{0}, {255}, {1}, {}}

NoRecorderFound == <<(<<"No recorder found">>)>>
FailedToStart == <<(<<"Failed to start voice recorder.">>)>>

\* `${spec.label}: ${reason}${extra ? ` (${extra})` : ""}`
failureText(label, reason, extra) ==
  IF extra # <<>> THEN <<(<<label>>), (<<reason>>), extra>>
  ELSE <<(<<label>>), (<<reason>>)>>
\* `detail ? "Recording did not produce audio. ${detail}" : "Recording did
\* not produce audio."`: a message is the sequence of its parts, each a text.
NoAudio(detail) ==
  IF detail # <<>> THEN <<(<<"Recording did not produce audio.">>), detail>>
  ELSE <<(<<"Recording did not produce audio.">>)>>
\* `${code}` of an exit code.
codeText(code) ==
  CASE code = {0} -> <<"0">>
    [] code = {1} -> <<"1">>
    [] code = {255} -> <<"2", "5", "5">>
    [] OTHER -> <<"n", "u", "l", "l">>

\* `Recorder exited with code ${code}`
ExitedWithCode(code) == <<(<<"Recorder exited with code">>), codeText(code)>>

\* A ChildProcess just created by spawn(): neither spawn nor error emitted;
\* `failure` is the message of the error event once it is emitted.
pendingRecorder(label) ==
  [label |-> label, state |-> "pending", killed |-> FALSE,
   signals |-> {}, ignores |-> {}, code |-> {}, stderr |-> <<>>,
   failure |-> {}]

IdleStop == [pc |-> "idle", sigtermTimer |-> "none", sigkillTimer |-> "none",
             error |-> <<>>]

IdleRec == [pc |-> "idle", candidates |-> <<>>, procs |-> <<>>, session |-> {},
            lastError |-> <<>>, error |-> <<>>, file |-> FALSE,
            stops |-> [k \in 1..MaxStops |-> IdleStop]]

\* The loop takes the last candidate of the list whatever was tried before.
spawnLastRecorder(r) ==
  [r EXCEPT !.procs = Append(@, pendingRecorder(r.candidates[Len(r.candidates)]))]

\* `const proc = spawnRecorder(spec)` of the loop's next iteration: the
\* candidate after those already tried.
spawnRecorder(r) ==
  [r EXCEPT !.procs = Append(@, pendingRecorder(r.candidates[Len(r.procs) + 1]))]

\* proc.kill(signal): the signal is sent, and `killed` set, while the runtime
\* still holds the process; otherwise kill() does nothing.
recorderKill(p, signal) ==
  IF p.state = "running"
    THEN [p EXCEPT !.killed = TRUE, !.signals = @ \cup {signal}]
    ELSE p

\* The timers test `proc.killed` before they send their signal.
timerKill(p, signal) == IF p.killed THEN p ELSE recorderKill(p, signal)

SessionIndex == CHOOSE i \in rec.session : TRUE
SessionProc == rec.procs[SessionIndex]

startVoiceRecording(installed) ==
  /\ rec.pc = "idle"
  /\ LET candidates == installedCandidates(installed)
         begun == [IdleRec EXCEPT !.candidates = candidates, !.file = FALSE] IN
     rec' = IF candidates = <<>>
              THEN [begun EXCEPT !.pc = "threw", !.error = NoRecorderFound]
              ELSE [spawnRecorder(begun) EXCEPT !.pc = "waiting"]
  /\ UNCHANGED <<varsJobs, varsFg, varsHeartbeat, varsDaemon>>

\* waitForSpawnOrError resolves on the spawn event: onReady, the callback of
\* cli/repl.ts that prints a line, is called and returns, and the session is
\* returned.
OnSpawn(ignores) ==
  /\ rec.pc = "waiting"
  /\ LET i == Len(rec.procs) IN
     /\ rec.procs[i].state = "pending"
     /\ rec' = [rec EXCEPT !.procs[i].state = "running",
                           !.procs[i].ignores = ignores,
                           !.session = {i},
                           !.pc = "returned"]
  /\ UNCHANGED <<varsJobs, varsFg, varsHeartbeat, varsDaemon>>

\* waitForSpawnOrError rejects on the error event: the catch block, and the
\* loop's next iteration or the throw after the loop.
OnSpawnError(reason) ==
  /\ rec.pc = "waiting"
  /\ LET i == Len(rec.procs) IN
     /\ rec.procs[i].state = "pending"
     /\ LET failed == [rec.procs[i] EXCEPT !.state = "failed", !.failure = {reason}]
            lastError == failureText(failed.label, reason, trim(failed.stderr))
            caught == [rec EXCEPT !.procs[i] = IF failed.code = {}
                                                 THEN recorderKill(failed, "SIGKILL")
                                                 ELSE failed,
                                  !.lastError = lastError] IN
        rec' = IF i < Len(rec.candidates)
                 THEN spawnRecorder(caught)
                 ELSE [caught EXCEPT !.pc = "threw",
                                     !.error = IF lastError # <<>> THEN lastError
                                               ELSE FailedToStart]
  /\ UNCHANGED <<varsJobs, varsFg, varsHeartbeat, varsDaemon>>

\* The recorder writes its audio file.
RecorderWrites ==
  /\ rec.session # {}
  /\ SessionProc.state = "running"
  /\ ~rec.file
  /\ rec' = [rec EXCEPT !.file = TRUE]
  /\ UNCHANGED <<varsJobs, varsFg, varsHeartbeat, varsDaemon>>

\* What a recorder writes to stderr at a time: one character.
RecorderChunks == {<<c>> : c \in Chars}

\* The recorder writes to stderr: `if (stderr.length < 900) stderr +=
\* String(chunk)`, the 900 scaled to MaxStderr.
OnRecorderStderr(chunk) ==
  /\ rec.session # {}
  /\ SessionProc.state \in {"running", "exited"}
  /\ Len(SessionProc.stderr) < MaxStderr
  /\ rec' = [rec EXCEPT !.procs[SessionIndex].stderr = @ \o chunk]
  /\ UNCHANGED <<varsJobs, varsFg, varsHeartbeat, varsDaemon>>

\* The recorder ends by itself, or on a signal it reacts to: with a code of
\* its own when it handles the signal, with none when the signal ends it.
RecorderExit(code) ==
  /\ rec.session # {}
  /\ SessionProc.state = "running"
  /\ "SIGKILL" \in SessionProc.signals => code = {}
  /\ (SessionProc.signals \ SessionProc.ignores = {}) => code # {}
  /\ rec' = [rec EXCEPT !.procs[SessionIndex].state = "exited",
                        !.procs[SessionIndex].code = code]
  /\ UNCHANGED <<varsJobs, varsFg, varsHeartbeat, varsDaemon>>

\* The outcome of a call of stop() when the close event arrives: onClose of
\* stopRecorderProcess, then the test of the audio file.
stopError(code, file, stderr) ==
  IF code \in {{0}, {255}, {}}
    THEN (IF file THEN <<>> ELSE NoAudio(trim(stderr)))
    ELSE ExitedWithCode(code)

closeStop(s, code, file, stderr) ==
  IF s.pc # "stopping" THEN s
  ELSE [pc |-> IF stopError(code, file, stderr) = <<>> THEN "resolved" ELSE "rejected",
        sigtermTimer |-> IF s.sigtermTimer = "armed" THEN "cleared" ELSE s.sigtermTimer,
        sigkillTimer |-> IF s.sigkillTimer = "armed" THEN "cleared" ELSE s.sigkillTimer,
        error |-> stopError(code, file, stderr)]

\* The close event of the recorder: every call of stop() that is listening
\* settles.
OnRecorderClose ==
  /\ rec.session # {}
  /\ SessionProc.state = "exited"
  /\ rec' = [rec EXCEPT !.procs[SessionIndex].state = "closed",
                        !.stops = [k \in 1..MaxStops |->
                                     closeStop(rec.stops[k], SessionProc.code, rec.file,
                                               SessionProc.stderr)]]
  /\ UNCHANGED <<varsJobs, varsFg, varsHeartbeat, varsDaemon>>

\* session.stop(): stopRecorderProcess listens for close, sends SIGINT and
\* sets its two timers.
stop(k) ==
  /\ rec.pc = "returned"
  /\ rec.stops[k].pc = "idle"
  /\ k > 1 => rec.stops[k - 1].pc # "idle"
  /\ rec' = [rec EXCEPT !.procs[SessionIndex] = recorderKill(@, "SIGINT"),
                        !.stops[k] = [IdleStop EXCEPT !.pc = "stopping",
                                                      !.sigtermTimer = "armed",
                                                      !.sigkillTimer = "armed"]]
  /\ UNCHANGED <<varsJobs, varsFg, varsHeartbeat, varsDaemon>>

\* The 700 ms timer: `if (settled || proc.killed) return; proc.kill("SIGTERM")`.
OnSigtermTimer(k) ==
  /\ rec.stops[k].sigtermTimer = "armed"
  /\ rec' = [rec EXCEPT !.procs[SessionIndex] = timerKill(@, "SIGTERM"),
                        !.stops[k].sigtermTimer = "fired"]
  /\ UNCHANGED <<varsJobs, varsFg, varsHeartbeat, varsDaemon>>

\* The 2200 ms timer: `if (settled || proc.killed) return; proc.kill("SIGKILL")`.
OnSigkillTimer(k) ==
  /\ rec.stops[k].sigkillTimer = "armed"
  /\ rec.stops[k].sigtermTimer # "armed"
  /\ rec' = [rec EXCEPT !.procs[SessionIndex] = timerKill(@, "SIGKILL"),
                        !.stops[k].sigkillTimer = "fired"]
  /\ UNCHANGED <<varsJobs, varsFg, varsHeartbeat, varsDaemon>>

NextRecorder ==
  \/ \E installed \in SUBSET RecorderLabels : startVoiceRecording(installed)
  \/ \E ignores \in Ignoring : OnSpawn(ignores)
  \/ \E reason \in SpawnReasons : OnSpawnError(reason)
  \/ RecorderWrites
  \/ \E chunk \in RecorderChunks : OnRecorderStderr(chunk)
  \/ \E code \in RecorderCodes : RecorderExit(code)
  \/ OnRecorderClose
  \/ \E k \in 1..MaxStops : stop(k)
  \/ \E k \in 1..MaxStops : OnSigtermTimer(k)
  \/ \E k \in 1..MaxStops : OnSigkillTimer(k)

\* ------------------------------------------------------------ idle parts
JobsIdle ==
  /\ now = 0
  /\ jobsFile = EmptyStore
  /\ statusFiles = [id \in AllIds |-> AbsentFile]
  /\ procs = <<>>
  /\ callback = [c \in Controllers |-> "set"]
  /\ ctl = [c \in Controllers |-> IdleCtl]
  /\ ret = NoReturn

FgIdle == fg = IdleFg

HeartbeatIdle ==
  /\ nowSeconds = 0
  /\ plan = fallbackTasks
  /\ heartbeatState = {}
  /\ heartbeatMtime = {}
  /\ batch = IdleBatch
  /\ other = IdleOther

DaemonIdle ==
  /\ runtimeFile = {}
  /\ daemons = <<>>
  /\ starter = [i \in Invokers |-> "idle"]
  /\ dret = NoDret

RecorderIdle == rec = IdleRec

ElseIdle == FgIdle /\ HeartbeatIdle /\ DaemonIdle /\ RecorderIdle

\* ------------------------------------------------------- specifications
vars == <<varsJobs, varsFg, varsHeartbeat, varsDaemon, varsRecorder>>

InitJobs ==
  /\ now = 0
  /\ jobsFile = EmptyStore
  /\ statusFiles = [id \in AllIds |-> AbsentFile]
  /\ procs = <<>>
  /\ callback = [c \in Controllers |-> "null"]
  /\ ctl = [c \in Controllers |-> IdleCtl]
  /\ ret = NoReturn
  /\ ElseIdle

Init == InitJobs


\* One controller; ordinary commands.
Next ==
  \/ \E cb \in {"null", "set"} : setApprovalCallback("c1", cb) /\ UNCHANGED varsElse
  \/ Execute("c1", Calls(PlainCommands \cup BlankCommands, {NoJobId, UnknownJobId},
                         BOOLEAN, MaxJobs), {0})
  \/ Environment

Spec == Init /\ [][Next]_vars

\* One controller; every command, the shell builtin `exit n` among them.
InitSet ==
  /\ now = 0
  /\ jobsFile = EmptyStore
  /\ statusFiles = [id \in AllIds |-> AbsentFile]
  /\ procs = <<>>
  /\ callback = [c \in Controllers |-> "set"]
  /\ ctl = [c \in Controllers |-> IdleCtl]
  /\ ret = NoReturn
  /\ ElseIdle

NextShell ==
  \/ Execute("c1", Calls(Commands, {}, {FALSE}, MaxJobs), {0})
  \/ Environment

SpecShell == InitSet /\ [][NextShell]_vars

\* Two controllers on the same store.
NextRace ==
  \/ \E c \in Controllers : Execute(c, Calls(RaceCommands, {}, {FALSE}, MaxRaceJobs), {0})
  \/ Environment

SpecRace == InitSet /\ [][NextRace]_vars

\* One controller launching several jobs, the id's random suffix drawn freely.
NextLaunch ==
  \/ Execute("c1", Calls(RaceCommands, {}, {FALSE}, MaxLaunches), 0..MaxSuffix)
  \/ Environment

SpecLaunch == InitSet /\ [][NextLaunch]_vars

\* Two controllers reconciling a store that holds one launched job.
InitReconcile ==
  /\ now = 0
  /\ \E command \in Commands :
       /\ jobsFile = (<<0, 0>> :> startBackgroundCommand(command, <<0, 0>>, 1))
       /\ procs = <<[id |-> <<0, 0>>, command |-> command, phase |-> "running",
                     term |-> FALSE]>>
  /\ statusFiles = [id \in AllIds |-> AbsentFile]
  /\ callback = [c \in Controllers |-> "set"]
  /\ ctl = [c \in Controllers |-> IdleCtl]
  /\ ret = NoReturn
  /\ ElseIdle

NextReconcile ==
  \/ \E c \in Controllers : Execute(c, Calls(RaceCommands, {}, {FALSE}, 0), {0})
  \/ Environment

SpecReconcile == InitReconcile /\ [][NextReconcile]_vars

\* One call of the foreground runner.
InitFg == JobsIdle /\ FgIdle /\ HeartbeatIdle /\ DaemonIdle /\ RecorderIdle

SpecFg == InitFg /\ [][NextFg]_vars

\* Scheduling batches over any plan, state file and clock reading.
InitHeartbeat ==
  /\ nowSeconds \in Seconds
  /\ plan \in Plans
  /\ heartbeatState \in {{}} \cup {{[lastChecks |-> checks, lastResults |-> EmptyStore]} :
                                     checks \in LastChecks}
  /\ heartbeatMtime = IF heartbeatState = {} THEN {} ELSE {0}
  /\ batch = IdleBatch
  /\ other = IdleOther
  /\ JobsIdle /\ FgIdle /\ DaemonIdle /\ RecorderIdle

SpecHeartbeat == InitHeartbeat /\ [][NextHeartbeat]_vars

\* Scheduling batches, one after the other, under a wall clock that is set to
\* any time between them; there is no state file at first and the plan has
\* no more tasks than there are keys, two of them with one key at most.
NextClock ==
  \/ NextHeartbeat
  \/ \E seconds \in Seconds : batch.pc = "idle" /\ ClockJump(seconds)

InitClock ==
  /\ nowSeconds = 0
  /\ plan \in {tasks \in Plans : Len(tasks) <= Cardinality(TaskKeys)}
  /\ heartbeatState = {}
  /\ heartbeatMtime = {}
  /\ batch = IdleBatch
  /\ other = IdleOther
  /\ JobsIdle /\ FgIdle /\ DaemonIdle /\ RecorderIdle

SpecClock == InitClock /\ [][NextClock]_vars

\* Two invocations of the scheduler on one state file, which is absent at
\* first, and a plan whose tasks have keys of their own.
InitOverlap ==
  /\ nowSeconds = 0
  /\ plan \in {tasks \in Plans :
                 \A i, j \in 1..Len(tasks) : tasks[i].key = tasks[j].key => i = j}
  /\ heartbeatState = {}
  /\ heartbeatMtime = {}
  /\ batch = IdleBatch
  /\ other = IdleOther
  /\ JobsIdle /\ FgIdle /\ DaemonIdle /\ RecorderIdle

SpecOverlap == InitOverlap /\ [][NextOverlap]_vars

\* Start, Stop and Status of two invokers, and the daemons' own steps.
InitDaemon == JobsIdle /\ FgIdle /\ HeartbeatIdle /\ DaemonIdle /\ RecorderIdle

SpecDaemon == InitDaemon /\ [][NextDaemon]_vars

\* A voice recording from its start to the calls of stop().
InitRecorder == JobsIdle /\ FgIdle /\ HeartbeatIdle /\ DaemonIdle /\ RecorderIdle

SpecRecorder == InitRecorder /\ [][NextRecorder]_vars

\* One invoker's Start, Stop and Status and the steps of the daemons it
\* launched: no poll loop is started by hand and no two calls overlap.
NextStopStart ==
  \/ \E entryScript \in BOOLEAN : startHeartbeatDaemon("i1", entryScript)
  \/ \E spawned \in (IF Len(daemons) < MaxDaemons THEN BOOLEAN ELSE {FALSE}) :
       StartSpawn("i1", spawned)
  \/ stopHeartbeatDaemon("i1")
  \/ getHeartbeatStatus("i1")
  \/ \E p \in 1..Len(daemons), env \in PollEnvs : runHeartbeatService(p, env)
  \/ \E p \in 1..Len(daemons) : BatchDone(p)
  \/ \E p \in 1..Len(daemons) : SleepDone(p)
  \/ \E p \in 1..Len(daemons) : OnSigint(p)
  \/ \E p \in 1..Len(daemons) : OnSigterm(p)
  \/ \E p \in 1..Len(daemons) : OnExit(p)
  \/ \E p \in 1..Len(daemons) : DaemonKilled(p)

SpecStopStart == InitDaemon /\ [][NextStopStart]_vars

\* ------------------------------------------------------------------ claims
\* The job records a return value carries.
ReturnedJobs(r) ==
  IF r.kind = "jobs" THEN {r.jobs[i] : i \in 1..Len(r.jobs)}
  ELSE IF r.kind = "started" THEN {r.job}
  ELSE IF r.kind = "status" /\ r.found THEN {r.job}
  ELSE IF r.kind = "stop" /\ r.stopped THEN {r.job}
  ELSE {}

\* The step in which controller c loads and reconciles the store.
LoadStep(c) == ctl[c].pc = "idle" /\ ctl'[c].pc = "loaded"

\* C1: a job persisted with a terminal status is never afterwards persisted or
\* returned with status running.
C1_StatusMonotonic ==
  [][\A id \in DOMAIN jobsFile :
       jobsFile[id].status \in Terminal =>
         /\ id \in DOMAIN jobsFile' => jobsFile'[id].status # "running"
         /\ \A j \in ReturnedJobs(ret') : j.id = id => j.status # "running"]_vars

\* What reconciliation makes of a record j that is running, as the claim has it.
C2_Expected(j, r) ==
  IF j.status # "running" THEN TRUE
  ELSE IF isAlive(j.pid) THEN r = j
  ELSE IF statusFiles[j.id].kind = "json" /\ statusFiles[j.id].exitCode # {}
    THEN /\ r.status = IF statusFiles[j.id].exitCode = {0} THEN "completed" ELSE "failed"
         /\ r.exitCode = statusFiles[j.id].exitCode
         /\ r.endedAt = IF statusFiles[j.id].endedAt # {}
                          THEN statusFiles[j.id].endedAt ELSE {now}
    ELSE r.status = "unknown" /\ r.endedAt # {}

\* The claim's three scenarios, for a job whose process has ended.
C2_Scenarios(j, r) ==
  j.status = "running" /\ r.status # "running" /\ j.pid \in 1..Len(procs) =>
    /\ procs[j.pid].phase = "exited" /\ j.command = "exit 0" => r.status = "completed"
    /\ procs[j.pid].phase = "exited" /\ j.command = "exit 7" =>
         r.status = "failed" /\ r.exitCode = {7}
    /\ procs[j.pid].phase = "killed" /\ statusFiles[j.id].kind = "absent" =>
         r.status = "unknown"

\* The first half of C2 alone: the result of reconciliation by liveness and
\* status file.
C2_Table ==
  [][\A c \in Controllers : LoadStep(c) =>
       \A id \in DOMAIN jobsFile : C2_Expected(jobsFile[id], ctl'[c].state[id])]_vars

\* C2: reconciliation of a running job returns it unchanged while its pid is
\* alive, gives completed/failed with the status file's exit code and endedAt
\* when the pid is dead and the file holds a numeric exit code, and unknown
\* otherwise; so a job running `exit 0` reconciles to completed, `exit 7` to
\* failed with exitCode 7, a job killed without a status file to unknown.
C2_ReconcileResult ==
  [][\A c \in Controllers : LoadStep(c) =>
       \A id \in DOMAIN jobsFile :
         /\ C2_Expected(jobsFile[id], ctl'[c].state[id])
         /\ C2_Scenarios(jobsFile[id], ctl'[c].state[id])]_vars

\* The job records the program holds: persisted, loaded or reconciled.
KnownRecords ==
  {jobsFile[id] : id \in DOMAIN jobsFile}
  \cup UNION {{ctl[c].loaded[id] : id \in DOMAIN ctl[c].loaded} : c \in Controllers}
  \cup UNION {{ctl[c].state[id] : id \in DOMAIN ctl[c].state} : c \in Controllers}

\* C3 (as amended): with liveness and status file as they are, reconciling the
\* result of a reconciliation returns it unchanged whatever the clock reads, a
\* terminal record is returned untouched, and two reconciliations of the same
\* record agree on status and exitCode.
C3_ReconcileIdempotent ==
  \A job \in KnownRecords : \A t1, t2 \in Times :
    LET once == reconcileJobAt(job, t1) IN
    /\ reconcileJobAt(once, t2) = once
    /\ job.status \in Terminal => once = job
    /\ reconcileJobAt(job, t2).status = once.status
    /\ reconcileJobAt(job, t2).exitCode = once.exitCode

\* A controller has reconciled a running record whose pid is dead and whose
\* status file gives no exit code.
C3_Witness ==
  \E c \in Controllers : \E id \in DOMAIN ctl[c].loaded :
     /\ ctl[c].loaded[id].status = "running"
     /\ ctl[c].state[id].status = "unknown"

\* C3 (as stated): two reconciliations of the same record, with the process
\* dead at both and the status file therefore the same, give identical output.
C3_SameOutputTwice ==
  \A c1, c2 \in Controllers :
    \A id \in DOMAIN ctl[c1].loaded \cap DOMAIN ctl[c2].loaded :
      /\ ctl[c1].loaded[id] = ctl[c2].loaded[id]
      /\ ctl[c1].loaded[id].status = "running"
      /\ ctl[c1].state[id].status # "running"
      /\ ctl[c2].state[id].status # "running"
      => ctl[c1].state[id] = ctl[c2].state[id]

\* The step in which controller c launches a command whose process the OS created.
StartStep(c) ==
  /\ ctl[c].pc = "loaded" /\ ctl[c].action = "start_background"
  /\ ctl[c].command \notin BlankCommands
  /\ ctl'[c].pc = "idle"
  /\ Len(procs') = Len(procs) + 1

\* C4: start_background spawns the command, persists exactly one new record
\* with status running under an id that was not in the store, and returns that
\* record while the process is still running.
C4_StartPersistsFreshJob ==
  [][\A c \in Controllers : StartStep(c) =>
       /\ ret'.kind = "started"
       /\ ret'.job.status = "running"
       /\ ret'.job.id \notin DOMAIN jobsFile
       /\ DOMAIN jobsFile' \ DOMAIN jobsFile = {ret'.job.id}
       /\ jobsFile'[ret'.job.id] = ret'.job
       /\ ret'.job.pid = Len(procs')
       /\ procs'[ret'.job.pid].phase = "running"]_vars

\* The result runForegroundCommand resolved with.
FgResult == CHOOSE r \in fg.result : TRUE

\* C5: the result has exitCode 124 and timedOut true exactly when the timeout
\* timer fired before the process closed; when the process closed first,
\* timedOut is false and exitCode is the process's own exit code (1 when it was
\* ended by a signal and has none); when the process could not be spawned the
\* result has exitCode 1, timedOut false and the error message at the end of
\* stderr.
C5_ExitCodePolicy ==
  fg.result # {} =>
    /\ (FgResult.exitCode = TimeoutExitCode /\ FgResult.timedOut) <=> fg.timer = "fired"
    /\ fg.timer # "fired" /\ fg.child = "closed" /\ fg.code # {} =>
         ~FgResult.timedOut /\ FgResult.exitCode \in fg.code
    /\ fg.timer # "fired" /\ fg.child = "closed" /\ fg.code = {} =>
         ~FgResult.timedOut /\ FgResult.exitCode = 1
    /\ fg.child = "errored" =>
         /\ FgResult.exitCode = 1 /\ ~FgResult.timedOut
         /\ Len(FgResult.stderr) >= Len(SpawnError)
         /\ SubSeq(FgResult.stderr, Len(FgResult.stderr) - Len(SpawnError) + 1,
                   Len(FgResult.stderr)) = SpawnError

\* The timer fired after a command that would have exited with 0 had ended,
\* and before its close: the result is 124, timed out.
C5_Witness ==
  /\ fg.result # {}
  /\ fg.code = {0}
  /\ FgResult.timedOut /\ FgResult.exitCode = TimeoutExitCode

\* C6: when the timeout fires the runner sends SIGTERM, and when the process
\* has still not exited at the end of the grace window it sends SIGKILL.
C6_GraceThenSigkill ==
  /\ fg.timer = "fired" /\ fg.child = "running" => fg.sigterm
  /\ fg.grace = "fired" /\ fg.child = "running" => fg.sigkill

\* A batch has read its plan, state and clock.
BatchBegun == batch.pc = "running" \/ batch.result # {}

DueSet == {batch.due[i] : i \in 1..Len(batch.due)}

StartCheckStep(i) ==
  /\ starter[i] = "idle"
  /\ starter'[i] = "checked" \/ (dret'.kind = "start" /\ dret'.by = i)

\* C8: Start, called while a runtime record exists and its pid is alive,
\* returns started: false, already running, and spawns nothing; so a Start
\* that follows a Start which spawned a daemon still alive spawns no second one.
C8_StartIdempotent ==
  [][\A i \in Invokers : StartCheckStep(i) =>
       /\ runtimeFile # {} /\ (\A pid \in runtimeFile : isAlivePid(pid)) =>
            /\ dret'.kind = "start" /\ ~dret'.started
            /\ dret'.message = "already running"
            /\ dret'.pid = runtimeFile
            /\ UNCHANGED <<runtimeFile, daemons, starter>>
       /\ dret.kind = "start" /\ dret.started /\ dret.pid \subseteq AliveDaemons =>
            /\ dret'.kind = "start" /\ ~dret'.started
            /\ dret'.message = "already running"
            /\ dret'.pid = dret.pid
            /\ UNCHANGED <<runtimeFile, daemons, starter>>]_vars

\* A Start has been refused as already running, and one daemon is alive.
C8_Witness ==
  /\ dret.kind = "start" /\ ~dret.started /\ dret.message = "already running"
  /\ Cardinality(AliveDaemons) = 1

\* C9: Stop with no runtime record reports not running and changes nothing;
\* with a runtime record it signals the recorded pid and the record is gone
\* when it returns, also when the recorded process had already died.
C9_StopDeletesRecord ==
  [][\A i \in Invokers : dret'.kind = "stop" /\ dret'.by = i /\ starter[i] = "idle" =>
       IF runtimeFile = {}
         THEN ~dret'.stopped /\ UNCHANGED <<runtimeFile, daemons>>
         ELSE /\ runtimeFile' = {}
              /\ \A pid \in runtimeFile : isAlivePid(pid) => daemons'[pid].term]_vars

ApprovalActions == {"run", "start_background", "stop_background"}

\* C10: a denied run, start_background or stop_background returns a denial and
\* changes neither the store nor any process (none spawned, none signalled),
\* and these actions get past the approval only with the callback's consent.
C10_DenialFrame ==
  [][/\ ret'.kind = "denied" =>
          /\ ret'.action \in ApprovalActions
          /\ UNCHANGED <<jobsFile, procs, statusFiles, ctl>>
     /\ \A c \in Controllers :
          ctl'[c].pc = "loaded" /\ ctl'[c].action \in ApprovalActions =>
            ctl'[c].approved /\ callback[c] # "null"]_vars

\* A stop of a running job whose process is alive has just been denied.
C10_Witness ==
  /\ ret.kind = "denied" /\ ret.action = "stop_background"
  /\ \E id \in DOMAIN jobsFile :
       jobsFile[id].status = "running" /\ jobsFile[id].pid > 0 /\ isAlive(jobsFile[id].pid)

\* The step in which controller c carries out a stop_background it has loaded.
StopStep(c) ==
  /\ ctl[c].pc = "loaded" /\ ctl[c].action = "stop_background"
  /\ ctl'[c].pc = "idle"

\* C11: stop_background on a job that is running with its process alive sends
\* SIGTERM to the job's pid and to no other process, persists the job with
\* status stopped and endedAt = now and returns it, all in the step of the
\* call: the process is still alive, the signal pending, when it returns.
C11_StopRunningJob ==
  [][\A c \in Controllers : StopStep(c) =>
       \A id \in DOMAIN ctl[c].state :
         LET job == ctl[c].state[id] IN
         /\ id = ctl[c].jobId
         /\ job.status = "running"
         /\ job.pid \in 1..Len(procs) /\ isAlive(job.pid)
         => /\ procs'[job.pid].term /\ procs'[job.pid].phase = "running"
            /\ \A p \in 1..Len(procs) : p # job.pid => procs'[p] = procs[p]
            /\ jobsFile'[id] = [job EXCEPT !.status = "stopped", !.endedAt = {now}]
            /\ ret' = [kind |-> "stop", by |-> c, stopped |-> TRUE, job |-> jobsFile'[id]]]_vars

\* A stop has returned a job as stopped while its process is alive, the
\* signal not yet handled.
C11_Witness ==
  /\ ret.kind = "stop" /\ ret.stopped
  /\ ret.job.status = "stopped" /\ ret.job.endedAt = {now}
  /\ ret.job.pid \in 1..Len(procs)
  /\ procs[ret.job.pid].phase = "running" /\ procs[ret.job.pid].term

\* The step in which controller c answers a list, status or stop it has loaded.
AnswerStep(c) ==
  /\ ctl[c].pc = "loaded"
  /\ ctl[c].action \in {"list_background", "status_background", "stop_background"}
  /\ ctl'[c].pc = "idle"

\* C12: list, status and stop reconcile before responding.  A job is running
\* in the store a call works on only if its pid was alive when the store was
\* read; that store does not change until the call answers; a job returned as
\* running is running in it; and every job returned is, as returned, in the
\* jobs file when the call returns (list returns every job of the file).
C12_ReconcileBeforeResponding ==
  [][\A c \in Controllers :
       /\ LoadStep(c) =>
            \A id \in DOMAIN ctl'[c].state :
              ctl'[c].state[id].status = "running" => isAlive(ctl'[c].state[id].pid)
       /\ ctl[c].pc = "loaded" /\ ctl'[c].pc = "loaded" => ctl'[c] = ctl[c]
       /\ AnswerStep(c) =>
            /\ \A j \in ReturnedJobs(ret') :
                 /\ j.id \in DOMAIN ctl[c].state
                 /\ j.status = "running" => ctl[c].state[j.id].status = "running"
                 /\ j.id \in DOMAIN jobsFile' /\ jobsFile'[j.id] = j
            /\ ret'.kind = "jobs" =>
                 ReturnedJobs(ret') = {jobsFile'[id] : id \in DOMAIN jobsFile'}]_vars

\* A list has returned a job as failed whose process ended while the job file
\* still said running.
C12_Witness ==
  /\ ret.kind = "jobs"
  /\ \E j \in ReturnedJobs(ret) :
       /\ j.status = "failed" /\ j.exitCode = {1}
       /\ j.pid \in 1..Len(procs) /\ ~isAlive(j.pid)
       /\ jobsFile[j.id] = j

\* C13: a job id once in the jobs file stays in it, and of its record only
\* status, exitCode and endedAt ever change.
C13_NeverDeleted ==
  [][\A id \in DOMAIN jobsFile :
       /\ id \in DOMAIN jobsFile'
       /\ jobsFile'[id].id = jobsFile[id].id
       /\ jobsFile'[id].command = jobsFile[id].command
       /\ jobsFile'[id].pid = jobsFile[id].pid
       /\ jobsFile'[id].startedAt = jobsFile[id].startedAt]_vars

\* A step that starts a batch: of the scheduler's steps, the one taken with no
\* batch in progress that is not a tick of the clock.
BatchBeginStep == batch.pc = "idle" /\ nowSeconds' = nowSeconds

\* No task of the plan is due, by the state file and the clock as they are.
NothingDue ==
  LET checks == loadHeartbeatState.lastChecks IN
  \A i \in 1..Len(plan) :
    nowSeconds - (IF plan[i].key \in DOMAIN checks THEN checks[plan[i].key] ELSE 0)
      < plan[i].intervalSeconds

\* C14: a batch that finds no task due returns at once with ok, dueCount 0 and
\* no runs, executes nothing and leaves the state file as it is, unwritten.
C14_NoOpTick ==
  [][BatchBeginStep /\ NothingDue =>
       /\ batch'.pc = "idle"
       /\ batch'.result = {[ok |-> TRUE, dueCount |-> 0, runs |-> <<>>]}
       /\ batch'.due = <<>> /\ batch'.runs = <<>>
       /\ UNCHANGED <<heartbeatState, heartbeatMtime>>]_vars

\* A batch found nothing due at a time later than the state file's last write.
C14_Witness ==
  /\ batch.pc = "idle"
  /\ batch.result = {[ok |-> TRUE, dueCount |-> 0, runs |-> <<>>]}
  /\ heartbeatState # {} /\ heartbeatMtime = {0}
  /\ batch.nowSeconds > 0 /\ batch.nowSeconds = nowSeconds

\* C15: in a batch the due tasks, taken in the plan's order, are executed one
\* at a time and in that order, each once: the runs recorded are those of the
\* first due tasks, the executor running is that of the next one, a run that
\* is not ok does not end the batch, and a batch that has returned has one run
\* for every due task.
C15_BatchExecution ==
  /\ Len(batch.runs) <= Len(batch.due)
  /\ \A i \in 1..Len(batch.runs) : batch.runs[i].key = batch.due[i].key
  /\ batch.executing \subseteq {Len(batch.runs) + 1} \cap (1..Len(batch.due))
  /\ batch.due = dueTasks(plan, batch.loaded, batch.nowSeconds)
  /\ batch.pc = "running" /\ batch.executing = {} /\ Len(batch.runs) < Len(batch.due)
       => ENABLED beginTask
  /\ \A result \in batch.result :
       /\ batch.pc = "idle"
       /\ result.runs = batch.runs
       /\ Len(result.runs) = Len(batch.due)
       /\ \A i \in 1..Len(batch.due) : result.runs[i].key = batch.due[i].key

\* A batch has returned in which the first due task failed and the second,
\* of another key, was executed after it.
C15_Witness ==
  /\ batch.pc = "idle" /\ Len(batch.due) = 2
  /\ \E result \in batch.result :
       /\ Len(result.runs) = 2
       /\ ~result.runs[1].ok /\ result.runs[2].ok
       /\ result.runs[1].key # result.runs[2].key

\* The step that ends a batch which had tasks due.
BatchEndStep == batch.pc = "running" /\ batch'.pc = "idle"

DueKeys == {batch.due[i].key : i \in 1..Len(batch.due)}

\* C16: the step that ends a batch with tasks due writes the state file, with
\* lastChecks[key] the batch's now_seconds for every task attempted, ok or
\* not, and every other key as it was; and the state file is written by no
\* other step, so once per batch, after its last task.
C16_LastChecksPersisted ==
  [][/\ BatchEndStep =>
          /\ DueKeys # {}
          /\ heartbeatState' # {} /\ heartbeatMtime' = {nowSeconds}
          /\ LET old == loadHeartbeatState.lastChecks
                 new == (CHOOSE state \in heartbeatState' : TRUE).lastChecks IN
             /\ DOMAIN new = DOMAIN old \cup DueKeys
             /\ \A key \in DueKeys : new[key] = batch.nowSeconds
             /\ \A key \in DOMAIN old \ DueKeys : new[key] = old[key]
     /\ heartbeatState' # heartbeatState \/ heartbeatMtime' # heartbeatMtime =>
          /\ BatchEndStep
          /\ batch.executing = {} /\ Len(batch.runs) = Len(batch.due)]_vars

\* A batch with a failed run has ended after the clock moved on: the state
\* file holds the batch's now_seconds for the failed task's key and the old
\* value of a key that was not due.
C16_Witness ==
  /\ batch.pc = "idle" /\ batch.result # {}
  /\ heartbeatMtime # {} /\ heartbeatMtime # {batch.nowSeconds}
  /\ \E state \in heartbeatState :
       /\ \E i \in 1..Len(batch.runs) :
            ~batch.runs[i].ok /\ state.lastChecks[batch.runs[i].key] = batch.nowSeconds
       /\ \E key \in DOMAIN batch.loaded.lastChecks \ DueKeys :
            /\ state.lastChecks[key] = batch.loaded.lastChecks[key]
            /\ state.lastChecks[key] # batch.nowSeconds

\* C17: the result's ok is the conjunction of the ok flags of the batch's runs,
\* true when there are none, and `heartbeat once` ends with a non-zero exit
\* code exactly when a run of the batch was not ok.
C17_BatchOk ==
  \A result \in batch.result :
    /\ result.ok <=> \A i \in 1..Len(result.runs) : result.runs[i].ok
    /\ result.runs = <<>> => result.ok
    /\ result.runs = batch.runs /\ result.dueCount = Len(batch.due)
    /\ \E code \in batch.exit :
         /\ batch.exit = {code}
         /\ code # 0 <=> \E i \in 1..Len(result.runs) : ~result.runs[i].ok

\* A batch of two runs, the first ok and the second not, has returned not ok
\* and `heartbeat once` ends with 1.
C17_Witness ==
  /\ batch.exit = {1}
  /\ \E result \in batch.result :
       /\ ~result.ok /\ Len(result.runs) = 2
       /\ result.runs[1].ok /\ ~result.runs[2].ok

\* The first n characters of a text, the whole text when it is shorter.
FirstChars(text, n) == SubSeq(text, 1, IF Len(text) < n THEN Len(text) ELSE n)

\* Some output of either stream is missing from what was captured.
OutputDropped ==
  \/ fg.stdout # fg.stdoutProduced
  \/ fg.stderr # fg.stderrProduced

\* C18: for each of stdout and stderr the captured text is never longer than
\* maxOutputChars and is a prefix of what the stream produced: it is the first
\* maxOutputChars characters of it, so that a stream which has accumulated the
\* cap keeps its captured text whatever it produces afterwards; the truncated
\* flag, and that of the result, is true exactly when some output of either
\* stream was dropped.
C18_OutputCap ==
  /\ Len(fg.stdout) <= fg.maxOutputChars
  /\ Len(fg.stderr) <= fg.maxOutputChars
  /\ fg.stdout = FirstChars(fg.stdoutProduced, fg.maxOutputChars)
  /\ fg.stderr = FirstChars(fg.stderrProduced, fg.maxOutputChars)
  /\ fg.truncated <=> OutputDropped
  /\ fg.result # {} => (FgResult.truncated <=> OutputDropped)

\* A command wrote more than the cap to stdout and less than the cap to
\* stderr: the result is truncated, stdout was cut and stderr is whole.
C18_Witness ==
  /\ fg.result # {} /\ fg.child = "closed"
  /\ Len(fg.stdoutProduced) > fg.maxOutputChars
  /\ Len(fg.stdout) = fg.maxOutputChars
  /\ fg.stderrProduced # <<>> /\ fg.stderr = fg.stderrProduced
  /\ FgResult.truncated

\* The recorders that got their spawn event.
SpawnedRecorders ==
  {i \in 1..Len(rec.procs) : rec.procs[i].state \in {"running", "exited", "closed"}}

\* C19: the installed recorder candidates are tried in the order of the list,
\* one at a time: a candidate is spawned only when every candidate before it
\* has failed with an error event; the candidate whose spawn event comes before
\* an error event is the session that startVoiceRecording returns, no candidate
\* after it is ever spawned, and at most one recorder process is alive.
C19_RecorderFallback ==
  /\ rec.candidates = installedCandidates({rec.candidates[i] : i \in 1..Len(rec.candidates)})
  /\ Len(rec.procs) <= Len(rec.candidates)
  /\ \A i \in 1..Len(rec.procs) :
       /\ rec.procs[i].label = rec.candidates[i]
       /\ i < Len(rec.procs) => rec.procs[i].state = "failed"
  /\ SpawnedRecorders = rec.session
  /\ rec.pc = "returned" <=> rec.session # {}
  /\ rec.session # {} => SessionIndex = Len(rec.procs)
  /\ Cardinality({i \in 1..Len(rec.procs) : rec.procs[i].state = "running"}) <= 1

\* Of three installed recorders the first failed and the second is the
\* session: it is running and the third was not tried.
C19_Witness ==
  /\ Len(rec.candidates) = Len(recorderSpecs)
  /\ rec.pc = "returned"
  /\ rec.session = {2}
  /\ rec.procs[1].state = "failed"
  /\ SessionProc.state = "running"
  /\ Len(rec.procs) = 2

\* A timer of a call of stop() goes off in this step.
SigtermTimerFires(k) ==
  rec.stops[k].sigtermTimer = "armed" /\ rec'.stops[k].sigtermTimer = "fired"

SigkillTimerFires(k) ==
  rec.stops[k].sigkillTimer = "armed" /\ rec'.stops[k].sigkillTimer = "fired"

\* C20: stop() sends SIGINT at once; when the recorder has not exited at the
\* time the 700 ms timer goes off, SIGTERM is sent to it, and when it is still
\* alive at the time the later timer goes off, SIGKILL is sent to it.
C20_StopEscalation ==
  [][\A k \in 1..MaxStops :
       /\ (rec.stops[k].pc = "idle" /\ rec'.stops[k].pc = "stopping"
             /\ SessionProc.state = "running")
            => "SIGINT" \in rec'.procs[SessionIndex].signals
       /\ (SigtermTimerFires(k) /\ SessionProc.state = "running")
            => "SIGTERM" \in rec'.procs[SessionIndex].signals
       /\ (SigkillTimerFires(k) /\ SessionProc.state = "running")
            => "SIGKILL" \in rec'.procs[SessionIndex].signals]_vars

\* The calls of stop() that the close event has settled.
SettledStops == {k \in 1..MaxStops : rec.stops[k].pc \in {"resolved", "rejected"}}

\* A message has the text among its parts.
Includes(message, text) == \E i \in 1..Len(message) : message[i] = text

\* C21: when the recorder has closed with exit code 0, 255 or null, stop()
\* succeeds (the audio file being there); with any other exit code stop()
\* fails with an error whose message includes the stderr that was captured.
C21_ExitPolicy ==
  \A k \in SettledStops :
    IF SessionProc.code \in {{0}, {255}, {}}
      THEN rec.file => rec.stops[k].pc = "resolved"
      ELSE /\ rec.stops[k].pc = "rejected"
           /\ trim(SessionProc.stderr) # <<>> =>
                Includes(rec.stops[k].error, trim(SessionProc.stderr))

\* C22: when no candidate is spawned, the error that startVoiceRecording
\* throws lists every candidate that was tried together with the reason of
\* its failure.
C22_AggregatedError ==
  rec.pc = "threw" =>
    \A i \in 1..Len(rec.procs) :
      /\ Includes(rec.error, <<rec.procs[i].label>>)
      /\ \A reason \in rec.procs[i].failure : Includes(rec.error, <<reason>>)

\* C23: stop() may be called again after the recorder has exited: the calls
\* that have settled have the same outcome, and no call is left pending once
\* the close event has been emitted and the call's timers have gone off, when
\* nothing is left that could settle it.
C23_StopIdempotent ==
  /\ \A j, k \in SettledStops : rec.stops[j].error = rec.stops[k].error
  /\ \A k \in 1..MaxStops :
       (rec.stops[k].pc = "stopping" /\ SessionProc.state = "closed")
         => "armed" \in {rec.stops[k].sigtermTimer, rec.stops[k].sigkillTimer}

\* The job records a controller holds or has just returned, and those of the
\* jobs file.
RecordsAround ==
  {jobsFile[id] : id \in DOMAIN jobsFile}
  \cup UNION {{ctl[c].state[id] : id \in DOMAIN ctl[c].state} : c \in Controllers}
  \cup (IF ret.kind = "started" THEN {ret.job} ELSE {})

\* C24: a wrapper process that the OS could not create leaves no job record:
\* no record, persisted, loaded for reconciliation or stop, or returned as
\* started, has a pid that is not positive, so that no pid of that kind is ever
\* probed or signalled.
C24_SpawnFailureSurfaced == \A job \in RecordsAround : job.pid >= 1

\* A call of Status returns in this step.
StatusStep == dret'.kind = "status"

\* C25: Status reports running exactly when there is a runtime record and the
\* pid it names is alive, it returns the record only then, and it leaves the
\* runtime record as it is, a stale one too.
C25_StatusReadOnly ==
  [][StatusStep =>
       /\ dret'.running <=> (runtimeFile # {} /\ runtimeFile \subseteq AliveDaemons)
       /\ dret'.runtime = (IF dret'.running THEN runtimeFile ELSE {})
       /\ runtimeFile' = runtimeFile
       /\ daemons' = daemons]_vars

\* Status has answered "not running" and the record of a dead daemon is
\* still there.
C25_Witness ==
  /\ dret.kind = "status"
  /\ ~dret.running
  /\ runtimeFile # {}
  /\ \A pid \in runtimeFile : pid \in 1..Len(daemons) /\ daemons[pid].phase = "dead"

\* Daemon p leaves its poll loop in this step: the process is gone.
DaemonGone(p) == daemons[p].phase = "polling" /\ daemons'[p].phase = "dead"

\* C26 as stated: whenever a daemon that has written its record is gone, for
\* whatever reason, the runtime record has been removed.
C26_RecordRemovedAtExit ==
  [][\A p \in 1..Len(daemons) : DaemonGone(p) => runtimeFile' = {}]_vars

\* C26: at its start the daemon writes a runtime record with its own pid and
\* enters its loop; the loop is a batch, then a sleep of the poll interval,
\* which is never under 15 s, then a batch again, and it is left only when the
\* process ends; when the process ends in its SIGINT or SIGTERM handler or
\* with the exit event, the runtime record has been removed.
C26_PollLoop ==
  [][\A p \in 1..Len(daemons) :
       /\ (daemons[p].phase = "started" /\ daemons'[p].phase = "polling")
            => runtimeFile' = {p} /\ daemons'[p].loop = "batch"
       /\ daemons'[p].phase = "polling"
            => /\ daemons'[p].pollSeconds >= MinPollSeconds
               /\ daemons'[p].loop \in {"batch", "sleep"}
       /\ daemons[p].phase = "polling" => daemons'[p].phase \in {"polling", "dead"}
       /\ (DaemonGone(p) /\ daemons'[p].exit \in {"SIGINT", "SIGTERM", "exit"})
            => runtimeFile' = {}]_vars

\* One daemon has ended in its SIGTERM handler and the record is gone, while
\* another sleeps between two batches with the default interval.
C26_Witness ==
  \E p, q \in 1..Len(daemons) :
    /\ daemons[p].exit = "SIGTERM"
    /\ runtimeFile = {}
    /\ daemons[q].phase = "polling" /\ daemons[q].loop = "sleep"
    /\ daemons[q].pollSeconds = DefaultPollSeconds

\* The tasks each invocation has attempted, at the tick time it read.
BatchAttempts ==
  {batch.due[i] : i \in 1..Len(batch.runs)} \cup {batch.due[i] : i \in batch.executing}

OtherAttempts == {other.due[i] : i \in 1..Len(other.runs)}

Distance(a, b) == IF a >= b THEN a - b ELSE b - a

\* C27: a task attempted by an invocation at tick time t is attempted by
\* the other invocation only at a tick time that is intervalSeconds away or
\* more, and once both invocations have finished the persisted state holds,
\* for every task that was attempted, a lastChecks value that is not before
\* the tick time of the attempt.
C27_SchedulerIdempotent ==
  /\ \A task \in BatchAttempts \cap OtherAttempts :
       Distance(batch.nowSeconds, other.nowSeconds) >= task.intervalSeconds
  /\ (batch.pc = "idle" /\ other.pc = "idle") =>
       /\ \A task \in BatchAttempts :
            /\ task.key \in DOMAIN loadHeartbeatState.lastChecks
            /\ loadHeartbeatState.lastChecks[task.key] >= batch.nowSeconds
       /\ \A task \in OtherAttempts :
            /\ task.key \in DOMAIN loadHeartbeatState.lastChecks
            /\ loadHeartbeatState.lastChecks[task.key] >= other.nowSeconds

\* C28: a daemon's cleanup removes its own record only: whenever a daemon
\* launched by Start is alive and has been neither stopped nor signalled, the
\* runtime record names its pid, so that Status reports running and Start
\* would find it.
C28_OwnRecordOnly ==
  \A p \in AliveDaemons : ~daemons[p].term => runtimeFile = {p}

\* C29: at most one poll-loop process is alive at any time, whatever the
\* interleaving of Start calls of several invokers, Stop, Status and poll
\* loops started by hand.
C29_SinglePollLoop == Cardinality(AliveDaemons) <= 1

\* The persisted lastChecks value of a key before and after a step, an absent
\* one read as 0.
LastCheckBefore(key) == lastCheckOf(loadHeartbeatState, key)
LastCheckAfter(key) ==
  IF heartbeatState' = {} THEN 0
  ELSE lastCheckOf(CHOOSE state \in heartbeatState' : TRUE, key)

\* C30: across batches that do not overlap, and whatever the clock reads at
\* each tick, a clock set backward included, the persisted lastChecks value of
\* a key never decreases and the key is never dropped; an update of a key
\* raises its value by the interval of a task of that key at least, the
\* intervals of the plan being positive.
C30_LastChecksMonotone ==
  [][\A key \in TaskKeys :
       /\ LastCheckAfter(key) >= LastCheckBefore(key)
       /\ key \in DOMAIN loadHeartbeatState.lastChecks
            => heartbeatState' # {}
               /\ \A state \in heartbeatState' : key \in DOMAIN state.lastChecks
       /\ LastCheckAfter(key) # LastCheckBefore(key)
            => \E i \in 1..Len(plan) :
                 /\ plan[i].key = key
                 /\ plan[i].intervalSeconds >= 1
                 /\ LastCheckAfter(key) - LastCheckBefore(key) >= plan[i].intervalSeconds]_vars

\* A batch has updated a key, the clock was then set back before that
\* update, and a batch run at that earlier time has found nothing due.
C30_Witness ==
  \E key \in TaskKeys :
    /\ key \in DOMAIN loadHeartbeatState.lastResults
    /\ key \in DOMAIN loadHeartbeatState.lastChecks
    /\ batch.pc = "idle" /\ batch.result # {}
    /\ \A r \in batch.result : r.dueCount = 0
    /\ batch.nowSeconds < loadHeartbeatState.lastChecks[key]
    /\ \E i \in 1..Len(plan) : plan[i].key = key

====
